---- MODULE Spec2Model ----
(***************************************************************************)
(* Canvas Viewport plugin (src/main.ts, second listing, lines 202-615):    *)
(* the file-open classifier, the viewport store kept inside the canvas     *)
(* document, and the deferred camera restoration.                          *)
(*                                                                         *)
(* The host (workspace leaves, vault, timers, the user) is the             *)
(* environment; every suspension point of the plugin's async functions     *)
(* (vault.read, vault.modify, setTimeout, requestAnimationFrame) is a      *)
(* separate step of a task.                                                *)
(***************************************************************************)
EXTENDS Integers, Sequences, FiniteSets, TLC

(* ------------------------------ bounds -------------------------------- *)

\* canvas views the host has open at once
MaxLeaves == 2
\* async plugin operations in flight at once
MaxTasks == 2
\* commands the user issues in one run
MaxCmds == 2
\* edits of a canvas document by the rest of the host in one run
MaxEdits == 1
\* largest zoom value a camera takes (smallest is 0)
MaxZoom == 2

(* ------------------------------ files --------------------------------- *)

TFile(p, e) == [null |-> FALSE, path |-> p, extension |-> e]
NullFile == [null |-> TRUE, path |-> "", extension |-> ""]

CanvasPaths == {"A.canvas", "B.canvas"}
CanvasTFiles == {TFile(p, "canvas") : p \in CanvasPaths}
\* everything the host may hand to the file-open handler
Activations == CanvasTFiles \cup {TFile("note.md", "md"), NullFile}

(* --------------------------- JS values -------------------------------- *)

Num(n) == [t |-> "num", n |-> n]
NaN == [t |-> "nan", n |-> 0]
Null == [t |-> "null", n |-> 0]
Undefined == [t |-> "undef", n |-> 0]

\* ToNumber of the values a camera field or a stored field can hold
ToNumber(v) ==
    CASE v.t = "undef" -> NaN
      [] v.t = "null" -> Num(0)
      [] OTHER -> v

\* a - b and a + b on JS numbers
Minus(a, b) ==
    LET x == ToNumber(a)
        y == ToNumber(b)
    IN IF x.t = "nan" \/ y.t = "nan" THEN NaN ELSE Num(x.n - y.n)

Plus(a, b) ==
    LET x == ToNumber(a)
        y == ToNumber(b)
    IN IF x.t = "nan" \/ y.t = "nan" THEN NaN ELSE Num(x.n + y.n)

\* CameraPosition { tx, ty, tZoom }
Pos(x, y, z) == [tx |-> x, ty |-> y, tZoom |-> z]
UndefPos == Pos(Undefined, Undefined, Undefined)

\* cameras the user navigates to
UserCams == {Pos(Num(0), Num(0), Num(1)), Pos(Num(10), Num(20), Num(2))}

InRange(v) == v.t = "num" => v.n \in 0..MaxZoom

(* ------------------------ device and key ------------------------------ *)

Devices == {"D1", "D2"}
ViewportKeys == Devices \cup {"global"}

\* a faulty variant that ignores the Global Viewport setting
getViewportKeyOfDevice(useGlobalViewport, device) == device

getViewportKeyOf(useGlobalViewport, device) ==
    IF useGlobalViewport THEN "global" ELSE device

(* ------------------- the canvas document as text ---------------------- *)
(* A document text is malformed, or the serialisation of an object with    *)
(* the canvas content (all top-level fields other than "viewports", kept   *)
(* as one value) and the optional "viewports" mapping.  fmt is the         *)
(* formatting of the text: the host writes canvas files tab-indented,      *)
(* JSON.stringify(x, null, 2) writes two-space indentation.                *)

NoEntry == [has |-> FALSE, rec |-> UndefPos]
Entry(r) == [has |-> TRUE, rec |-> r]
NoViewports == [k \in ViewportKeys |-> NoEntry]

Malformed == [wf |-> FALSE, fmt |-> "none", other |-> 0, hasVp |-> FALSE, vp |-> NoViewports]
Doc(fmt, other, hasVp, vp) == [wf |-> TRUE, fmt |-> fmt, other |-> other, hasVp |-> hasVp, vp |-> vp]

\* JSON.stringify of one value: NaN becomes null, an undefined property is left out
StringifyVal(v) == IF v.t = "nan" THEN Null ELSE v
StringifyPos(p) == Pos(StringifyVal(p.tx), StringifyVal(p.ty), StringifyVal(p.tZoom))

\* a faulty parser that accepts every text
ParseThrowsNever(text) == FALSE

\* JSON.parse: throws on malformed text, else the object
ParseThrows(text) == ~text.wf
JSONparse(text) == [other |-> text.other, hasVp |-> text.hasVp, vp |-> text.vp]

\* JSON.stringify(canvasData, null, 2)
JSONstringify(obj) ==
    Doc("sp2", obj.other, obj.hasVp,
        [k \in ViewportKeys |->
            IF obj.vp[k].has THEN Entry(StringifyPos(obj.vp[k].rec)) ELSE NoEntry])

\* a faulty variant that yields a default record where there is none
LookupOrOrigin(obj, key) ==
    IF obj.hasVp /\ obj.vp[key].has THEN obj.vp[key] ELSE Entry(Pos(Num(0), Num(0), Num(1)))

\* canvasData.viewports?.[viewportKey], as an entry
Lookup(obj, key) == IF obj.hasVp THEN obj.vp[key] ELSE NoEntry

(* -------------------------- viewport store ---------------------------- *)

\* faulty variants of the store: a save that swaps the pan fields, a save that patches the old record field by field, a
\* delete guard that lets every parseable document through, a delete that
\* keeps the emptied mapping, and a delete that removes nothing
saveCurrentPositionTextSwapped(content, key, position) ==
    [content EXCEPT !.fmt = "sp2", !.hasVp = TRUE,
                    !.vp[key] = Entry(Pos(position.ty, position.tx, position.tZoom))]
saveCurrentPositionTextMerged(content, key, position) ==
    LET old == content.vp[key].rec
        Field(new, was) == IF new.t = "undef" THEN was ELSE new
    IN [content EXCEPT !.fmt = "sp2", !.hasVp = TRUE,
                       !.vp[key] = Entry(Pos(Field(position.tx, old.tx),
                                             Field(position.ty, old.ty),
                                             Field(position.tZoom, old.tZoom)))]
deleteSavedPositionFindsAlways(content, key) == content.wf
deleteSavedPositionTextKeepsEmpty(content, key) ==
    [content EXCEPT !.fmt = "sp2", !.vp[key] = NoEntry]
deleteSavedPositionTextRemovesNothing(content, key) == [content EXCEPT !.fmt = "sp2"]

\* a faulty load that falls back to the record of any other key
loadSavedPositionOfAnyKey(text, key) ==
    IF ~text.wf \/ ~text.hasVp \/ \A k \in ViewportKeys : ~text.vp[k].has THEN NoEntry
    ELSE IF text.vp[key].has THEN text.vp[key]
    ELSE text.vp[CHOOSE k \in ViewportKeys : text.vp[k].has]

\* loadSavedPosition after the read: the position, or null (found = FALSE)
loadSavedPositionOf(text, key) ==
    IF ParseThrows(text) THEN NoEntry ELSE Lookup(JSONparse(text), key)

\* saveCurrentPosition between the read and the write: the text handed to modify
saveCurrentPositionText(content, key, position) ==
    LET canvasData == JSONparse(content)
        viewports == IF canvasData.hasVp THEN canvasData.vp ELSE NoViewports
    IN JSONstringify([other |-> canvasData.other, hasVp |-> TRUE,
                      vp |-> [viewports EXCEPT ![key] = Entry(position)]])

\* deleteSavedPosition: does the guard on line 522 let the delete through
deleteSavedPositionFinds(content, key) ==
    ~ParseThrows(content) /\ Lookup(JSONparse(content), key).has

\* deleteSavedPosition between the read and the write: the text handed to modify
deleteSavedPositionText(content, key) ==
    LET canvasData == JSONparse(content)
        viewports == [canvasData.vp EXCEPT ![key] = NoEntry]
        empty == \A k \in ViewportKeys : ~viewports[k].has
    IN JSONstringify([other |-> canvasData.other,
                      hasVp |-> ~empty,
                      vp |-> IF empty THEN NoViewports ELSE viewports])

(* --------------------------- notices ---------------------------------- *)

NoNotice == ""
PleaseOpen == "Please open a canvas first"
NoSaved == "No saved viewport position found"
Restored == "Canvas viewport restored"
Saved == "Canvas viewport position saved"
FailedSave == "Failed to save viewport position"
Deleted == "Canvas viewport position deleted for"
FailedRestore == "Failed to restore viewport"

(* ------------------------------ state --------------------------------- *)

VARIABLES
    loaded,             \* the plugin is loaded (between onload and onunload)
    currentDevice,      \* this.currentDevice
    useGlobalViewport,  \* this.settings.useGlobalViewport
    openCanvasFiles,    \* this.openCanvasFiles
    leaves,             \* workspace.getLeavesOfType('canvas'), in the host's order
    active,             \* position in leaves of the active view, 0 when it is no canvas
    disk,               \* the vault: the text of each canvas file
    tasks,              \* the async operations in flight, oldest first
    cmds,               \* commands issued so far
    last                \* what the last step did that the user or the host can see

vars == <<loaded, currentDevice, useGlobalViewport, openCanvasFiles, leaves, active,
          disk, tasks, cmds, last>>

getViewportKey == getViewportKeyOf(useGlobalViewport, currentDevice)

(* A leaf holds a view of one canvas file for its whole life, and a canvas *)
(* file is shown by one view at a time.  The view's canvas object may be    *)
(* missing, or present with its camera fields not yet populated (all       *)
(* undefined).                                                             *)
Leaf(path, hasCanvas, cam) == [file |-> path, hasCanvas |-> hasCanvas, cam |-> cam]

RemoveAt(s, i) == SubSeq(s, 1, i - 1) \o SubSeq(s, i + 1, Len(s))
InsertAt(s, i, e) == SubSeq(s, 1, i - 1) \o <<e>> \o SubSeq(s, i, Len(s))
Includes(seq, x) == \E i \in 1..Len(seq) : seq[i] = x

(* A task is one call of restoreViewport, saveCurrentPosition or           *)
(* deleteSavedPosition that is suspended at an await, a timer or a frame    *)
(* callback.                                                               *)
(*   by        who called: "file-open" (the handler) or "command"          *)
(*   wasOpen   by file-open: the path was in openCanvasFiles at the call   *)
(*   view      the view the call holds, as its position in leaves (0: the  *)
(*             view is closed; cam then keeps, for a save, the last camera *)
(*             of its canvas)                                              *)
(*   content   save, delete: the text vault.read returned                  *)
(*   key       save, delete: the viewportKey                               *)
(*   position  restore: the loaded position; save: the position saved      *)
(*   zoomDelta restore: the delta computed after the timer                 *)
(*   text      save, delete: the text handed to vault.modify               *)
Task(kind, path, by, wasOpen, view) ==
    [kind |-> kind, file |-> path, pc |-> "read", by |-> by, wasOpen |-> wasOpen,
     view |-> view, cam |-> UndefPos, content |-> Malformed, key |-> "",
     position |-> UndefPos, zoomDelta |-> Undefined, text |-> Malformed]

(* The report of a step: the Notice it showed, and for a step of the       *)
(* handler or of a task, which one, on which file, under which key,        *)
(* whether its read, parse or write threw, and whether it started a        *)
(* restoration; named is the key the Notice names; added, for a step of    *)
(* the handler, the paths its rebuild put into the remembered set that     *)
(* were neither in it before nor the activated file; ops, for a frame      *)
(* callback, the canvas methods it called, in the order of the calls;      *)
(* uncaught, whether an exception left the step with no handler of the     *)
(* plugin catching it.  The opening of a view is reported too              *)
(* (by = "open").                                                          *)
Report(by, path, key, notice, failed, started) ==
    [by |-> by, file |-> path, key |-> key, notice |-> notice, named |-> "",
     failed |-> failed, started |-> started, added |-> {}, ops |-> <<>>,
     uncaught |-> FALSE]
NoReport == Report("", "", "", NoNotice, FALSE, FALSE)

PlainDoc == Doc("tab", 0, FALSE, NoViewports)
SavedDoc == Doc("tab", 0, TRUE, [NoViewports EXCEPT !["D1"] = Entry(Pos(Num(10), Num(20), Num(2)))])

\* the initial documents: written by the host, tab-indented
InitDisks ==
    {[p \in CanvasPaths |-> IF p = "A.canvas" THEN a ELSE PlainDoc] : a \in {SavedDoc, Malformed}}

Init ==
    /\ loaded = TRUE
    /\ currentDevice = "D1"
    /\ useGlobalViewport = FALSE
    /\ openCanvasFiles = <<>>
    /\ leaves = <<>>
    /\ active = 0
    /\ disk \in InitDisks
    /\ tasks = <<>>
    /\ cmds = 0
    /\ last = NoReport

(* ------------------------- the environment ---------------------------- *)

Quiet == last' = NoReport

\* the views the tasks hold, after a view is inserted at position at
ShiftUp(at) ==
    [n \in 1..Len(tasks) |->
        IF tasks[n].view >= at THEN [tasks[n] EXCEPT !.view = @ + 1] ELSE tasks[n]]

\* the views the tasks hold, after the view at position i is closed: a call that
\* holds it keeps its canvas object; a save reads the camera it had
ShiftDown(i) ==
    [n \in 1..Len(tasks) |->
        IF tasks[n].view = i
        THEN [tasks[n] EXCEPT !.view = 0,
                              !.cam = IF tasks[n].kind = "save" THEN leaves[i].cam ELSE UndefPos]
        ELSE IF tasks[n].view > i THEN [tasks[n] EXCEPT !.view = @ - 1] ELSE tasks[n]]

\* the user opens a canvas in a new tab, which becomes the active view; the host
\* places the view at position at among its canvas views
OpenLeaf(path, at) ==
    /\ Len(leaves) < MaxLeaves
    /\ at \in 1..Len(leaves) + 1
    /\ ~Includes([n \in 1..Len(leaves) |-> leaves[n].file], path)
    /\ leaves' = InsertAt(leaves, at, Leaf(path, FALSE, UndefPos))
    /\ active' = at
    /\ tasks' = ShiftUp(at)
    /\ last' = Report("open", path, "", NoNotice, FALSE, FALSE)
    /\ UNCHANGED <<loaded, currentDevice, useGlobalViewport, openCanvasFiles, disk, cmds>>

\* the view gets its canvas object, the camera fields not yet populated
CanvasAttach(i) ==
    /\ i \in 1..Len(leaves)
    /\ ~leaves[i].hasCanvas
    /\ leaves' = [leaves EXCEPT ![i].hasCanvas = TRUE]
    /\ Quiet
    /\ UNCHANGED <<loaded, currentDevice, useGlobalViewport, openCanvasFiles, active, disk,
                   tasks, cmds>>

\* the canvas populates its camera, or the user pans and zooms it
UserMove(i, c) ==
    /\ i \in 1..Len(leaves)
    /\ leaves[i].hasCanvas
    /\ c \in UserCams
    /\ leaves[i].cam # c
    /\ leaves' = [leaves EXCEPT ![i].cam = c]
    /\ Quiet
    /\ UNCHANGED <<loaded, currentDevice, useGlobalViewport, openCanvasFiles, active, disk,
                   tasks, cmds>>

\* the user closes a tab
CloseLeaf(i) ==
    /\ i \in 1..Len(leaves)
    /\ leaves' = RemoveAt(leaves, i)
    /\ active' = IF active = i THEN 0 ELSE IF active > i THEN active - 1 ELSE active
    /\ tasks' = ShiftDown(i)
    /\ Quiet
    /\ UNCHANGED <<loaded, currentDevice, useGlobalViewport, openCanvasFiles, disk, cmds>>

\* the user brings another view to the front (0: a view that is no canvas)
SetActive(a) ==
    /\ a \in 0..Len(leaves)
    /\ a # active
    /\ active' = a
    /\ Quiet
    /\ UNCHANGED <<loaded, currentDevice, useGlobalViewport, openCanvasFiles, leaves, disk,
                   tasks, cmds>>

\* another part of the host rewrites a canvas document: an edit of its content,
\* which keeps the viewports field
HostEdit(path) ==
    /\ path \in CanvasPaths
    /\ disk[path].wf
    /\ disk[path].other < MaxEdits
    /\ disk' = [disk EXCEPT ![path].other = @ + 1, ![path].fmt = "tab"]
    /\ Quiet
    /\ UNCHANGED <<loaded, currentDevice, useGlobalViewport, openCanvasFiles, leaves, active,
                   tasks, cmds>>

\* the settings tab's Global Viewport toggle
SetGlobalViewport(value) ==
    /\ loaded
    /\ value \in BOOLEAN
    /\ value # useGlobalViewport
    /\ useGlobalViewport' = value
    /\ Quiet
    /\ UNCHANGED <<loaded, currentDevice, openCanvasFiles, leaves, active, disk, tasks, cmds>>

(* ------------------------------ onload -------------------------------- *)

\* a plugin instance starts: on this device again, or on another device that
\* holds the same synchronized vault
Onload(device) ==
    /\ ~loaded
    /\ tasks = <<>>
    /\ device \in Devices
    /\ loaded' = TRUE
    /\ currentDevice' = device
    /\ openCanvasFiles' = <<>>
    /\ Quiet
    /\ UNCHANGED <<useGlobalViewport, leaves, active, disk, tasks, cmds>>

\* a faulty teardown that leaves the remembered set as it is
OnunloadKeeps ==
    /\ loaded
    /\ loaded' = FALSE
    /\ Quiet
    /\ UNCHANGED <<currentDevice, useGlobalViewport, openCanvasFiles, leaves, active, disk,
                   tasks, cmds>>

\* onunload, lines 577-580; the host also stops calling the handler and the commands
Onunload ==
    /\ loaded
    /\ loaded' = FALSE
    /\ openCanvasFiles' = <<>>
    /\ Quiet
    /\ UNCHANGED <<currentDevice, useGlobalViewport, leaves, active, disk, tasks, cmds>>

(* ----------------------- the file-open handler ------------------------ *)

\* faulty variants of the classifier: one that forgets the remembered set, one
\* that looks at the extension only, and a rebuild that never drops a path
wasAlreadyOpenNever(file, open) == FALSE
IsGenuineOpenByExtension(file, open) == ~file.null /\ file.extension = "canvas"
\* a faulty variant that classifies on the set as rebuilt, not as remembered
IsGenuineOpenAfterReplace(file, open) ==
    /\ ~file.null
    /\ file.extension = "canvas"
    /\ ~Includes([i \in 1..Len(leaves) |-> leaves[i].file], file.path)
CurrentCanvasFilesKept ==
    openCanvasFiles \o SelectSeq([i \in 1..Len(leaves) |-> leaves[i].file],
                                 LAMBDA p : ~Includes(openCanvasFiles, p))

\* line 342
wasAlreadyOpen(file, open) == file.extension = "canvas" /\ Includes(open, file.path)

\* line 352, negated: the activation goes on to restoreViewport
IsGenuineOpen(file, open) ==
    ~(file.null \/ file.extension # "canvas" \/ wasAlreadyOpen(file, open))

\* lines 347-349
CurrentCanvasFiles == [i \in 1..Len(leaves) |-> leaves[i].file]

Spawn(t) ==
    /\ Len(tasks) < MaxTasks
    /\ tasks' = Append(tasks, t)

\* the host signals file-open: for a canvas that a view shows, for another file,
\* or for no file
FileOpen(file) ==
    /\ loaded
    /\ file \in Activations
    /\ file.extension = "canvas" => Includes(CurrentCanvasFiles, file.path)
    /\ openCanvasFiles' = CurrentCanvasFiles
    /\ IF IsGenuineOpen(file, openCanvasFiles)
       THEN Spawn(Task("restore", file.path, "file-open",
                       Includes(openCanvasFiles, file.path), 0))
       ELSE tasks' = tasks
    /\ last' = [Report("file-open", file.path, "", NoNotice, FALSE,
                       IsGenuineOpen(file, openCanvasFiles))
                    EXCEPT !.added = {q \in CanvasPaths :
                                        /\ Includes(CurrentCanvasFiles, q)
                                        /\ ~Includes(openCanvasFiles, q)
                                        /\ q # file.path}]
    /\ UNCHANGED <<loaded, currentDevice, useGlobalViewport, leaves, active, disk, cmds>>

(* ----------------------------- commands ------------------------------- *)

\* checkCallback(true): lines 265-271, 278
checkCallback == Len(leaves) # 0

\* a faulty variant that shows the notice and goes on to the operation
RefuseAndDelete ==
    /\ last' = Report("command", "", "", PleaseOpen, FALSE, FALSE)
    /\ Spawn(Task("delete", "A.canvas", "command", FALSE, 0))

\* checkCallback(false) of a command that finds no canvas view
Refuse == last' = Report("command", "", "", PleaseOpen, FALSE, FALSE) /\ tasks' = tasks

\* save-canvas-viewport, checkCallback(false); saveCurrentPosition up to its read
CmdSave ==
    /\ loaded
    /\ cmds < MaxCmds
    /\ cmds' = cmds + 1
    /\ IF ~checkCallback
       THEN Refuse
       ELSE /\ IF ~leaves[1].hasCanvas
               THEN tasks' = tasks
               ELSE Spawn(Task("save", leaves[1].file, "command", FALSE, 1))
            /\ last' = Report("command", leaves[1].file, "", NoNotice, FALSE, FALSE)
    /\ UNCHANGED <<loaded, currentDevice, useGlobalViewport, openCanvasFiles, leaves, active, disk>>

\* restore-canvas-viewport, checkCallback(false)
CmdRestore ==
    /\ loaded
    /\ cmds < MaxCmds
    /\ cmds' = cmds + 1
    /\ IF ~checkCallback
       THEN Refuse
       ELSE /\ Spawn(Task("restore", leaves[1].file, "command", FALSE, 0))
            /\ last' = Report("command", leaves[1].file, "", NoNotice, FALSE, TRUE)
    /\ UNCHANGED <<loaded, currentDevice, useGlobalViewport, openCanvasFiles, leaves, active, disk>>

\* delete-canvas-viewport, checkCallback(false); deleteSavedPosition up to its read
CmdDelete ==
    /\ loaded
    /\ cmds < MaxCmds
    /\ cmds' = cmds + 1
    /\ IF ~checkCallback
       THEN Refuse
       ELSE /\ Spawn(Task("delete", leaves[1].file, "command", FALSE, 1))
            /\ last' = Report("command", leaves[1].file, "", NoNotice, FALSE, FALSE)
    /\ UNCHANGED <<loaded, currentDevice, useGlobalViewport, openCanvasFiles, leaves, active, disk>>

(* --------------------------- restoreViewport -------------------------- *)

At(i, kind, pc) == i \in 1..Len(tasks) /\ tasks[i].kind = kind /\ tasks[i].pc = pc

\* a faulty load that writes the document back as it parsed it
RestoreReadRewrites(i, readOk) ==
    /\ At(i, "restore", "read")
    /\ LET found == IF readOk THEN loadSavedPositionOf(disk[tasks[i].file], getViewportKey)
                    ELSE NoEntry
           threw == ~readOk \/ ParseThrows(disk[tasks[i].file])
       IN /\ IF ~found.has
             THEN /\ tasks' = RemoveAt(tasks, i)
                  /\ last' = Report("restore", tasks[i].file, getViewportKey, NoSaved, threw, FALSE)
             ELSE /\ tasks' = [tasks EXCEPT ![i].pc = "timer", ![i].key = getViewportKey,
                                            ![i].position = found.rec]
                  /\ Quiet
          /\ disk' = IF threw THEN disk
                     ELSE [disk EXCEPT ![tasks[i].file] = JSONstringify(JSONparse(@))]
    /\ UNCHANGED <<loaded, currentDevice, useGlobalViewport, openCanvasFiles, leaves, active,
                   cmds>>

\* vault.read resolves or rejects; loadSavedPosition returns; lines 411-419
RestoreRead(i, readOk) ==
    /\ At(i, "restore", "read")
    /\ LET found == IF readOk THEN loadSavedPositionOf(disk[tasks[i].file], getViewportKey)
                    ELSE NoEntry
           threw == ~readOk \/ ParseThrows(disk[tasks[i].file])
       IN IF ~found.has
          THEN /\ tasks' = RemoveAt(tasks, i)
               /\ last' = Report("restore", tasks[i].file, getViewportKey, NoSaved, threw, FALSE)
          ELSE /\ tasks' = [tasks EXCEPT ![i].pc = "timer", ![i].key = getViewportKey,
                                         ![i].position = found.rec]
               /\ Quiet
    /\ UNCHANGED <<loaded, currentDevice, useGlobalViewport, openCanvasFiles, leaves, active,
                   disk, cmds>>

\* line 435: the canvas the timer finds is usable
Initialized(canvasView) == canvasView.hasCanvas /\ canvasView.cam.tZoom.t # "undef"

\* a faulty variant that waits again while the canvas is not usable
RestoreTimerRetries(i) ==
    /\ At(i, "restore", "timer")
    /\ IF Len(leaves) = 0 \/ ~Initialized(leaves[1])
       THEN tasks' = tasks
       ELSE tasks' = [tasks EXCEPT
                ![i].pc = "frame",
                ![i].view = 1,
                ![i].zoomDelta = Minus(tasks[i].position.tZoom, leaves[1].cam.tZoom)]
    /\ Quiet
    /\ UNCHANGED <<loaded, currentDevice, useGlobalViewport, openCanvasFiles, leaves, active,
                   disk, cmds>>

\* the 100 ms timer fires; lines 424-458 up to the requestAnimationFrame call
RestoreTimer(i) ==
    /\ At(i, "restore", "timer")
    /\ IF Len(leaves) = 0 \/ ~Initialized(leaves[1])
       THEN tasks' = RemoveAt(tasks, i)
       ELSE tasks' = [tasks EXCEPT
                ![i].pc = "frame",
                ![i].view = 1,
                ![i].zoomDelta = Minus(tasks[i].position.tZoom, leaves[1].cam.tZoom)]
    /\ Quiet
    /\ UNCHANGED <<loaded, currentDevice, useGlobalViewport, openCanvasFiles, leaves, active,
                   disk, cmds>>

\* canvas.zoomBy(delta), taken as adding delta to the zoom
zoomBy(cam, delta) == [cam EXCEPT !.tZoom = Plus(cam.tZoom, delta)]
\* canvas.panTo(x, y), taken as setting the pan
panTo(cam, x, y) == [cam EXCEPT !.tx = x, !.ty = y]

\* a faulty callback that pans before it adjusts the zoom
FrameOpsPanFirst == <<"panTo", "zoomBy", "markViewportChanged", "requestFrame">>

\* the canvas methods the frame callback calls, lines 452-455
FrameOps == <<"zoomBy", "panTo", "markViewportChanged", "requestFrame">>

\* one canvas method's effect on the camera; markViewportChanged and requestFrame
\* leave the camera as it is
CanvasOp(op, cam, position, zoomDelta) ==
    CASE op = "zoomBy" -> zoomBy(cam, zoomDelta)
      [] op = "panTo" -> panTo(cam, position.tx, position.ty)
      [] OTHER -> cam

\* the camera after the calls ops, made in their order
RECURSIVE RunOps(_, _, _, _)
RunOps(ops, cam, position, zoomDelta) ==
    IF ops = <<>> THEN cam
    ELSE RunOps(Tail(ops), CanvasOp(Head(ops), cam, position, zoomDelta), position, zoomDelta)

\* the frame callback's camera operations, lines 452-455
ApplyPosition(cam, position, zoomDelta) == RunOps(FrameOps, cam, position, zoomDelta)

\* the animation frame callback runs, lines 451-458, the host calling it outside
\* the try of lines 449-462, which has ended by then.  throwAt = 0: every canvas
\* method returns.  throwAt = k: the k-th call throws before it changes the
\* camera; the calls before it have taken effect, the calls after it and the
\* Notice of line 456 are skipped, and the exception leaves the callback.
RestoreFrame(i, throwAt) ==
    /\ At(i, "restore", "frame")
    /\ throwAt \in 0..Len(FrameOps)
    /\ LET called == IF throwAt = 0 THEN FrameOps ELSE SubSeq(FrameOps, 1, throwAt)
           done == IF throwAt = 0 THEN FrameOps ELSE SubSeq(FrameOps, 1, throwAt - 1)
       IN /\ IF tasks[i].view = 0
             THEN leaves' = leaves
             ELSE LET cam == RunOps(done, leaves[tasks[i].view].cam, tasks[i].position,
                                    tasks[i].zoomDelta)
                  IN /\ InRange(cam.tZoom)
                     /\ leaves' = [leaves EXCEPT ![tasks[i].view].cam = cam]
          /\ last' = [Report("restore", tasks[i].file, tasks[i].key,
                             IF throwAt = 0 THEN Restored ELSE NoNotice, throwAt # 0, FALSE)
                          EXCEPT !.ops = called, !.uncaught = throwAt # 0]
    /\ tasks' = RemoveAt(tasks, i)
    /\ UNCHANGED <<loaded, currentDevice, useGlobalViewport, openCanvasFiles, active, disk, cmds>>

(* ------------------------- saveCurrentPosition ------------------------ *)

\* view.canvas's camera, for the view a call holds
ViewCam(t) == IF t.view = 0 THEN t.cam ELSE leaves[t.view].cam

\* vault.read resolves or rejects; lines 477-496 up to the vault.modify call
SaveRead(i, readOk) ==
    /\ At(i, "save", "read")
    /\ IF ~readOk \/ ParseThrows(disk[tasks[i].file])
       THEN /\ tasks' = RemoveAt(tasks, i)
            /\ last' = Report("save", tasks[i].file, "", FailedSave, TRUE, FALSE)
       ELSE /\ tasks' = [tasks EXCEPT
                    ![i].pc = "write",
                    ![i].content = disk[tasks[i].file],
                    ![i].key = getViewportKey,
                    ![i].position = ViewCam(tasks[i]),
                    ![i].text = saveCurrentPositionText(disk[tasks[i].file], getViewportKey,
                                                        ViewCam(tasks[i]))]
            /\ Quiet
    /\ UNCHANGED <<loaded, currentDevice, useGlobalViewport, openCanvasFiles, leaves, active,
                   disk, cmds>>

\* vault.modify resolves or rejects; lines 496-503
SaveWrite(i, writeOk) ==
    /\ At(i, "save", "write")
    /\ IF writeOk
       THEN /\ disk' = [disk EXCEPT ![tasks[i].file] = tasks[i].text]
            /\ last' = Report("save", tasks[i].file, tasks[i].key, Saved, FALSE, FALSE)
       ELSE /\ disk' = disk
            /\ last' = Report("save", tasks[i].file, tasks[i].key, FailedSave, TRUE, FALSE)
    /\ tasks' = RemoveAt(tasks, i)
    /\ UNCHANGED <<loaded, currentDevice, useGlobalViewport, openCanvasFiles, leaves, active, cmds>>

(* ------------------------- deleteSavedPosition ------------------------ *)

\* vault.read resolves or rejects; lines 518-536 up to the vault.modify call; when
\* the call returns false, the command's then-callback, lines 321-324
DeleteRead(i, readOk) ==
    /\ At(i, "delete", "read")
    /\ IF ~readOk \/ ~deleteSavedPositionFinds(disk[tasks[i].file], getViewportKey)
       THEN /\ tasks' = RemoveAt(tasks, i)
            /\ last' = Report("delete", tasks[i].file, getViewportKey, NoSaved,
                              ~readOk \/ ParseThrows(disk[tasks[i].file]), FALSE)
       ELSE /\ tasks' = [tasks EXCEPT
                    ![i].pc = "write",
                    ![i].content = disk[tasks[i].file],
                    ![i].key = getViewportKey,
                    ![i].text = deleteSavedPositionText(disk[tasks[i].file], getViewportKey)]
            /\ Quiet
    /\ UNCHANGED <<loaded, currentDevice, useGlobalViewport, openCanvasFiles, leaves, active,
                   disk, cmds>>

\* vault.modify resolves or rejects, then the command's then-callback; lines 536-545, 317-325
DeleteWrite(i, writeOk) ==
    /\ At(i, "delete", "write")
    /\ IF writeOk
       THEN /\ disk' = [disk EXCEPT ![tasks[i].file] = tasks[i].text]
            /\ last' = [Report("delete", tasks[i].file, tasks[i].key, Deleted, FALSE, FALSE)
                            EXCEPT !.named = getViewportKey]
       ELSE /\ disk' = disk
            /\ last' = Report("delete", tasks[i].file, tasks[i].key, NoSaved, TRUE, FALSE)
    /\ tasks' = RemoveAt(tasks, i)
    /\ UNCHANGED <<loaded, currentDevice, useGlobalViewport, openCanvasFiles, leaves, active, cmds>>

(* --------------------------- specifications --------------------------- *)

\* the whole system
Next ==
    \/ \E path \in CanvasPaths, at \in 1..MaxLeaves : OpenLeaf(path, at)
    \/ \E i \in 1..MaxLeaves : CanvasAttach(i)
    \/ \E i \in 1..MaxLeaves, c \in UserCams : UserMove(i, c)
    \/ \E i \in 1..MaxLeaves : CloseLeaf(i)
    \/ \E a \in 0..MaxLeaves : SetActive(a)
    \/ \E path \in CanvasPaths : HostEdit(path)
    \/ \E value \in BOOLEAN : SetGlobalViewport(value)
    \/ \E device \in Devices : Onload(device)
    \/ Onunload
    \/ \E file \in Activations : FileOpen(file)
    \/ CmdSave
    \/ CmdRestore
    \/ CmdDelete
    \/ \E i \in 1..MaxTasks, readOk \in BOOLEAN : RestoreRead(i, readOk)
    \/ \E i \in 1..MaxTasks : RestoreTimer(i)
    \/ \E i \in 1..MaxTasks, throwAt \in 0..Len(FrameOps) : RestoreFrame(i, throwAt)
    \/ \E i \in 1..MaxTasks, readOk \in BOOLEAN : SaveRead(i, readOk)
    \/ \E i \in 1..MaxTasks, writeOk \in BOOLEAN : SaveWrite(i, writeOk)
    \/ \E i \in 1..MaxTasks, readOk \in BOOLEAN : DeleteRead(i, readOk)
    \/ \E i \in 1..MaxTasks, writeOk \in BOOLEAN : DeleteWrite(i, writeOk)

Spec == Init /\ [][Next]_vars

(* Opening, closing and restoring: the user opens and closes canvases (new *)
(* tabs come last), moves their cameras and runs the restore command; the   *)
(* documents are as they were saved earlier and the settings stay.          *)
NextOpen ==
    \/ \E path \in CanvasPaths : OpenLeaf(path, Len(leaves) + 1)
    \/ \E i \in 1..MaxLeaves : CanvasAttach(i)
    \/ \E i \in 1..MaxLeaves, c \in UserCams : UserMove(i, c)
    \/ \E i \in 1..MaxLeaves : CloseLeaf(i)
    \/ \E file \in Activations : FileOpen(file)
    \/ CmdRestore
    \/ \E i \in 1..MaxTasks, readOk \in BOOLEAN : RestoreRead(i, readOk)
    \/ \E i \in 1..MaxTasks : RestoreTimer(i)
    \/ \E i \in 1..MaxTasks : RestoreFrame(i, 0)

SpecOpen == Init /\ [][NextOpen]_vars

(* Saving, deleting and restoring on one canvas: the user opens A.canvas,   *)
(* moves its camera, runs the three commands and changes the setting; the   *)
(* host edits the document; the plugin is unloaded and loaded again, on     *)
(* this or on the other device.                                             *)
NextStore ==
    \/ OpenLeaf("A.canvas", 1)
    \/ \E i \in 1..MaxLeaves : CanvasAttach(i)
    \/ \E i \in 1..MaxLeaves, c \in UserCams : UserMove(i, c)
    \/ HostEdit("A.canvas")
    \/ \E value \in BOOLEAN : SetGlobalViewport(value)
    \/ \E device \in Devices : Onload(device)
    \/ Onunload
    \/ CmdSave
    \/ CmdRestore
    \/ CmdDelete
    \/ \E i \in 1..MaxTasks, readOk \in BOOLEAN : RestoreRead(i, readOk)
    \/ \E i \in 1..MaxTasks : RestoreTimer(i)
    \/ \E i \in 1..MaxTasks : RestoreFrame(i, 0)
    \/ \E i \in 1..MaxTasks, readOk \in BOOLEAN : SaveRead(i, readOk)
    \/ \E i \in 1..MaxTasks, writeOk \in BOOLEAN : SaveWrite(i, writeOk)
    \/ \E i \in 1..MaxTasks, readOk \in BOOLEAN : DeleteRead(i, readOk)
    \/ \E i \in 1..MaxTasks, writeOk \in BOOLEAN : DeleteWrite(i, writeOk)

SpecStore == Init /\ [][NextStore]_vars

(* The life of the remembered set: the user opens and closes canvases, the  *)
(* host signals file-open, the plugin is unloaded and loaded again.         *)
NextLife ==
    \/ \E path \in CanvasPaths : OpenLeaf(path, Len(leaves) + 1)
    \/ \E i \in 1..MaxLeaves : CanvasAttach(i)
    \/ \E i \in 1..MaxLeaves, c \in UserCams : UserMove(i, c)
    \/ \E i \in 1..MaxLeaves : CloseLeaf(i)
    \/ \E file \in Activations : FileOpen(file)
    \/ \E device \in Devices : Onload(device)
    \/ Onunload
    \/ \E i \in 1..MaxTasks, readOk \in BOOLEAN : RestoreRead(i, readOk)
    \/ \E i \in 1..MaxTasks : RestoreTimer(i)
    \/ \E i \in 1..MaxTasks : RestoreFrame(i, 0)

SpecLife == Init /\ [][NextLife]_vars

(* The commands with several canvases open: the user opens both canvases,  *)
(* brings one or the other (or a view that is no canvas) to the front,      *)
(* moves the cameras and runs the three commands.                           *)
NextCommands ==
    \/ \E path \in CanvasPaths : OpenLeaf(path, Len(leaves) + 1)
    \/ \E i \in 1..MaxLeaves : CanvasAttach(i)
    \/ \E i \in 1..MaxLeaves, c \in UserCams : UserMove(i, c)
    \/ \E a \in 0..MaxLeaves : SetActive(a)
    \/ CmdSave
    \/ CmdRestore
    \/ CmdDelete
    \/ \E i \in 1..MaxTasks, readOk \in BOOLEAN : RestoreRead(i, readOk)
    \/ \E i \in 1..MaxTasks : RestoreTimer(i)
    \/ \E i \in 1..MaxTasks : RestoreFrame(i, 0)
    \/ \E i \in 1..MaxTasks, readOk \in BOOLEAN : SaveRead(i, readOk)
    \/ \E i \in 1..MaxTasks, writeOk \in BOOLEAN : SaveWrite(i, writeOk)
    \/ \E i \in 1..MaxTasks, readOk \in BOOLEAN : DeleteRead(i, readOk)
    \/ \E i \in 1..MaxTasks, writeOk \in BOOLEAN : DeleteWrite(i, writeOk)

SpecCommands == Init /\ [][NextCommands]_vars

(* The apply sequence: the user opens and closes A.canvas, moves its camera *)
(* and runs the restore command, the host signals file-open and edits the  *)
(* document, and a canvas method the frame callback calls may throw.        *)
NextApply ==
    \/ OpenLeaf("A.canvas", 1)
    \/ HostEdit("A.canvas")
    \/ \E i \in 1..MaxLeaves : CanvasAttach(i)
    \/ \E i \in 1..MaxLeaves, c \in UserCams : UserMove(i, c)
    \/ \E i \in 1..MaxLeaves : CloseLeaf(i)
    \/ \E file \in Activations : FileOpen(file)
    \/ CmdRestore
    \/ \E i \in 1..MaxTasks, readOk \in BOOLEAN : RestoreRead(i, readOk)
    \/ \E i \in 1..MaxTasks : RestoreTimer(i)
    \/ \E i \in 1..MaxTasks, throwAt \in 0..Len(FrameOps) : RestoreFrame(i, throwAt)

SpecApply == Init /\ [][NextApply]_vars

\* every pending frame callback would leave its canvas's zoom within the
\* zoom values cameras take here
FramesFit ==
    \A n \in 1..Len(tasks) :
        tasks[n].kind = "restore" /\ tasks[n].pc = "frame" /\ tasks[n].view # 0 =>
            InRange(Plus(leaves[tasks[n].view].cam.tZoom, tasks[n].zoomDelta))

(* One restoration at a time, to its end: as above, but the user and the    *)
(* host cause the next restoration only when the last one has ended, and    *)
(* the user leaves the camera alone while a frame callback is pending that  *)
(* would take the zoom out of the values cameras take here.  The host       *)
(* settles every vault.read, fires every timer and runs every frame         *)
(* callback.                                                                *)
NextFair ==
    \/ OpenLeaf("A.canvas", 1)
    \/ \E i \in 1..MaxLeaves : CanvasAttach(i)
    \/ \E i \in 1..MaxLeaves, c \in UserCams : UserMove(i, c) /\ FramesFit'
    \/ \E i \in 1..MaxLeaves : CloseLeaf(i)
    \/ \E file \in Activations : FileOpen(file) /\ Len(tasks') <= 1
    \/ CmdRestore /\ Len(tasks') <= 1
    \/ \E i \in 1..MaxTasks, readOk \in BOOLEAN : RestoreRead(i, readOk)
    \/ \E i \in 1..MaxTasks : RestoreTimer(i)
    \/ \E i \in 1..MaxTasks, throwAt \in 0..Len(FrameOps) : RestoreFrame(i, throwAt)

Fairness ==
    /\ WF_vars(\E i \in 1..MaxTasks, readOk \in BOOLEAN : RestoreRead(i, readOk))
    /\ WF_vars(\E i \in 1..MaxTasks : RestoreTimer(i))
    /\ WF_vars(\E i \in 1..MaxTasks, throwAt \in 0..Len(FrameOps) : RestoreFrame(i, throwAt))

SpecFair == Init /\ [][NextFair]_vars /\ Fairness

(* ============================ properties ============================== *)

\* the step is the handler's run for the activation f (its report is looked at
\* first: no other step reports a file-open)
Handles(f) == last'.by = "file-open" /\ last'.file = f.path /\ FileOpen(f)

\* a view shows the canvas p
Shown(ls, p) == \E n \in 1..Len(ls) : ls[n].file = p
\* the camera of the view that shows p
CamOf(ls, p) == ls[CHOOSE n \in 1..Len(ls) : ls[n].file = p].cam
\* the step appends one restoration of p, started by file-open, to the tasks
StartsRestoration(p) ==
    /\ Len(tasks') = Len(tasks) + 1
    /\ SubSeq(tasks', 1, Len(tasks)) = tasks
    /\ tasks'[Len(tasks')].kind = "restore"
    /\ tasks'[Len(tasks')].file = p
    /\ tasks'[Len(tasks')].pc = "read"
    /\ tasks'[Len(tasks')].by = "file-open"

(* C1: for every file-open activation with file f and remembered set S, the *)
(* handler starts a restoration of f if and only if f is non-null, has the  *)
(* canvas extension and its path is not in S; every other activation (null  *)
(* file, other extension, canvas whose path is in S) starts nothing.        *)
C1_ClassifierRule ==
    [][\A f \in Activations :
          Handles(f) =>
            IF ~f.null /\ f.extension = "canvas" /\ ~Includes(openCanvasFiles, f.path)
            THEN StartsRestoration(f.path) /\ last'.started
            ELSE tasks' = tasks /\ ~last'.started]_vars

\* A.canvas has been open and remembered; the activation of B.canvas was
\* classified genuine and its restoration is pending
C1_Witness ==
    /\ last.by = "file-open" /\ last.file = "B.canvas" /\ last.started
    /\ openCanvasFiles = <<"A.canvas", "B.canvas">>
    /\ Shown(leaves, "A.canvas") /\ CamOf(leaves, "A.canvas") = Pos(Num(0), Num(0), Num(1))
    /\ Len(tasks) = 1 /\ tasks[1].file = "B.canvas" /\ tasks[1].by = "file-open"

(* C2: a spurious re-signal never resets the camera.  (a) An activation of  *)
(* a canvas whose path is in the remembered set starts no restoration:      *)
(* no task (hence no document read), no camera change, no notice.  (b) A    *)
(* canvas that stays open stays in the remembered set once recorded.  (c)   *)
(* The camera of a live canvas changes only by the user or by the frame     *)
(* step of a restoration that a genuine-open activation or the restore      *)
(* command started.                                                         *)
C2_NoSpuriousReset ==
    [][/\ \A f \in CanvasTFiles :
            Handles(f) /\ Includes(openCanvasFiles, f.path) =>
                /\ tasks' = tasks
                /\ leaves' = leaves
                /\ disk' = disk
                /\ last'.notice = NoNotice /\ ~last'.started
       /\ \A p \in CanvasPaths :
            Includes(openCanvasFiles, p) /\ Shown(leaves, p) /\ Shown(leaves', p) /\ loaded'
                => Includes(openCanvasFiles', p)
       /\ \A p \in CanvasPaths :
            Shown(leaves, p) /\ Shown(leaves', p) /\ CamOf(leaves', p) # CamOf(leaves, p) =>
                \/ \E i \in 1..MaxLeaves, c \in UserCams : UserMove(i, c)
                \/ \E i \in 1..Len(tasks) :
                     /\ \E k \in 0..Len(FrameOps) : RestoreFrame(i, k)
                     /\ \/ tasks[i].by = "command"
                        \/ tasks[i].by = "file-open" /\ ~tasks[i].wasOpen]_vars

\* A.canvas has a saved position, is open with another camera, and was just
\* activated again: nothing was started and the camera is the user's
C2_Witness ==
    /\ last.by = "file-open" /\ last.file = "A.canvas" /\ ~last.started
    /\ Includes(openCanvasFiles, "A.canvas")
    /\ loadSavedPositionOf(disk["A.canvas"], getViewportKey).has
    /\ Shown(leaves, "A.canvas")
    /\ CamOf(leaves, "A.canvas") = Pos(Num(0), Num(0), Num(1))
    /\ tasks = <<>>

(* C3: when the remembered set is rebuilt while canvas A has no view, the   *)
(* set no longer contains A; the set changes in no other step than a        *)
(* file-open (or the unload); and an activation of A that finds A outside   *)
(* the set is classified genuine and starts a restoration of A.             *)
C3_GenuineReopen ==
    [][/\ \A f \in Activations :
            Handles(f) =>
                \A p \in CanvasPaths : ~Shown(leaves, p) => ~Includes(openCanvasFiles', p)
       /\ openCanvasFiles' # openCanvasFiles =>
            \/ \E f \in Activations : Handles(f)
            \/ openCanvasFiles' = <<>>
       /\ \A p \in CanvasPaths :
            Handles(TFile(p, "canvas")) /\ ~Includes(openCanvasFiles, p) =>
                StartsRestoration(p) /\ Includes(openCanvasFiles', p)]_vars

\* A.canvas was opened, closed while its first restoration still waited for its
\* frame, forgotten by a rebuild, and opened again: the second activation
\* started a second restoration
C3_Witness ==
    /\ Len(tasks) = 2
    /\ tasks[1].file = "A.canvas" /\ tasks[1].by = "file-open"
    /\ tasks[1].pc = "frame" /\ tasks[1].view = 0
    /\ tasks[2].file = "A.canvas" /\ tasks[2].by = "file-open" /\ tasks[2].pc = "read"
    /\ last.by = "file-open" /\ last.file = "A.canvas" /\ last.started

(* ------------------------------ the store ----------------------------- *)

\* the document text holds a record under key k
HasKey(text, k) == text.wf /\ text.hasVp /\ text.vp[k].has
\* the record the text holds under key k; what the text holds beside viewports
RecordAt(text, k) == text.vp[k].rec
\* a viewport record of JSON numbers
IsViewportRecord(r) == r.tx.t = "num" /\ r.ty.t = "num" /\ r.tZoom.t = "num"

(* C4: save-then-load round trip.  When a save of the viewport record R     *)
(* (three numbers) under key K into a parseable document succeeds, a load   *)
(* of the document just written, under the same K, returns a record equal   *)
(* to R.                                                                    *)
C4_SaveLoadRoundTrip ==
    [][\A i \in 1..Len(tasks) :
          SaveWrite(i, TRUE) /\ IsViewportRecord(tasks[i].position) =>
            /\ loadSavedPositionOf(disk'[tasks[i].file], tasks[i].key).has
            /\ loadSavedPositionOf(disk'[tasks[i].file], tasks[i].key).rec
                    = tasks[i].position]_vars

\* a save of the camera (0, 0, 1) over the record (10, 20, 2) has succeeded,
\* and the load returns the new record
C4_Witness ==
    /\ last.by = "save" /\ last.notice = Saved /\ last.file = "A.canvas"
    /\ last.key = "D1"
    /\ loadSavedPositionOf(disk["A.canvas"], "D1") = Entry(Pos(Num(0), Num(0), Num(1)))

(* C5: frame of writes.  The document a successful save or delete under key *)
(* K writes has, compared with the document the operation read, the same    *)
(* content beside viewports and the same record (or none) under every key   *)
(* other than K; a save leaves under K exactly the new record, as JSON      *)
(* writes it (a number as itself, NaN as null): a field the new record      *)
(* lacks is not taken from the old one.  No other file changes.             *)
C5_FrameOfWrites ==
    [][\A i \in 1..Len(tasks) :
          SaveWrite(i, TRUE) \/ DeleteWrite(i, TRUE) =>
            LET f == tasks[i].file
                was == tasks[i].content
            IN /\ disk'[f].wf
               /\ disk'[f].other = was.other
               /\ \A k \in ViewportKeys \ {tasks[i].key} :
                    /\ HasKey(disk'[f], k) <=> HasKey(was, k)
                    /\ HasKey(was, k) => RecordAt(disk'[f], k) = RecordAt(was, k)
               /\ tasks[i].kind = "save" =>
                    /\ HasKey(disk'[f], tasks[i].key)
                    /\ \A fld \in {"tx", "ty", "tZoom"} :
                         RecordAt(disk'[f], tasks[i].key)[fld] =
                             IF tasks[i].position[fld].t = "nan" THEN Null
                             ELSE tasks[i].position[fld]
               /\ \A p \in CanvasPaths \ {f} : disk'[p] = disk[p]]_vars

\* a save under "global" has succeeded on a document edited once before, and
\* the record of device D1 and the edit are still there
C5_Witness ==
    /\ last.by = "save" /\ last.notice = Saved /\ last.key = "global"
    /\ disk["A.canvas"].other = 1
    /\ HasKey(disk["A.canvas"], "global")
    /\ HasKey(disk["A.canvas"], "D1")
    /\ RecordAt(disk["A.canvas"], "D1") = Pos(Num(10), Num(20), Num(2))

(* C6: no clobbering of concurrent edits.  The document a save or delete    *)
(* writes differs from the on-disk document at the moment of the write only *)
(* in viewports[key]: the content beside viewports and the records under    *)
(* the other keys, as they are on disk just before the write, survive it.   *)
C6_NoClobbering ==
    [][\A i \in 1..Len(tasks) :
          SaveWrite(i, TRUE) \/ DeleteWrite(i, TRUE) =>
            LET f == tasks[i].file
            IN /\ disk'[f].other = disk[f].other
               /\ \A k \in ViewportKeys \ {tasks[i].key} :
                    /\ HasKey(disk'[f], k) <=> HasKey(disk[f], k)
                    /\ HasKey(disk[f], k) =>
                         RecordAt(disk'[f], k) = RecordAt(disk[f], k)]_vars

(* C7: no-op write avoidance.  A delete whose read finds a parseable        *)
(* document with no record under the key (no viewports field, or none under *)
(* that key) ends there: it returns false (the command shows "No saved      *)
(* viewport position found"), no write follows, and the text on disk is     *)
(* unchanged.                                                               *)
C7_NoOpDelete ==
    [][\A i \in 1..Len(tasks) :
          /\ DeleteRead(i, TRUE)
          /\ disk[tasks[i].file].wf
          /\ ~disk[tasks[i].file].hasVp \/ ~disk[tasks[i].file].vp[getViewportKey].has
          => /\ disk' = disk
             /\ tasks' = RemoveAt(tasks, i)
             /\ last'.notice = NoSaved /\ ~last'.failed]_vars

\* a delete found nothing on a document that has no viewports field and is
\* still as the host wrote it
C7_Witness ==
    /\ last.by = "delete" /\ last.notice = NoSaved /\ ~last.failed
    /\ disk[last.file].wf /\ ~disk[last.file].hasVp /\ disk[last.file].fmt = "tab"
    /\ \A i \in 1..Len(tasks) : tasks[i].kind # "delete"

(* C8: absence invariant.  No document on disk, and no text about to be     *)
(* written, has a viewports field that is an empty mapping; after a delete  *)
(* removes the last key the field is absent.                                *)
C8_AbsenceInvariant ==
    /\ \A p \in CanvasPaths :
         disk[p].wf /\ disk[p].hasVp => \E k \in ViewportKeys : disk[p].vp[k].has
    /\ \A i \in 1..Len(tasks) :
         tasks[i].pc = "write" /\ tasks[i].text.hasVp =>
             \E k \in ViewportKeys : tasks[i].text.vp[k].has

\* a delete has removed the only record of A.canvas and the document it wrote
\* has no viewports field
C8_Witness ==
    /\ last.by = "delete" /\ last.notice = Deleted /\ last.file = "A.canvas"
    /\ disk["A.canvas"].wf /\ disk["A.canvas"].fmt = "sp2"
    /\ ~disk["A.canvas"].hasVp
    /\ \A k \in ViewportKeys : ~disk["A.canvas"].vp[k].has

(* C9: delete idempotence.  The document a successful delete of K writes    *)
(* has no record under K, and a second delete of K that reads right after   *)
(* it returns false, writes nothing and leaves the document as the first    *)
(* delete left it.                                                          *)
C9_DeleteIdempotent ==
    [][/\ \A i \in 1..Len(tasks) :
            DeleteWrite(i, TRUE) => ~HasKey(disk'[tasks[i].file], tasks[i].key)
       /\ \A i \in 1..Len(tasks) :
            /\ DeleteRead(i, TRUE)
            /\ last.by = "delete" /\ last.notice = Deleted
            /\ last.file = tasks[i].file /\ last.key = getViewportKey
            => /\ disk' = disk
               /\ tasks' = RemoveAt(tasks, i)
               /\ last'.notice = NoSaved /\ ~last'.failed]_vars

\* a first delete of D1's record has just succeeded and a second delete of the
\* same key is about to read the document
C9_Witness ==
    /\ last.by = "delete" /\ last.notice = Deleted /\ last.file = "A.canvas"
    /\ last.key = "D1" /\ getViewportKey = "D1"
    /\ Len(tasks) = 1 /\ tasks[1].kind = "delete" /\ tasks[1].pc = "read"
    /\ tasks[1].file = "A.canvas"

(* C10: save failure leaves the document untouched.  When the read is       *)
(* rejected, the text is not parseable, or the write is rejected, the save  *)
(* ends with the failure notice, not the success notice, and the texts on   *)
(* disk are unchanged; the read step of a save never changes them.          *)
C10_SaveFailure ==
    [][\A i \in 1..Len(tasks) :
          /\ \A ok \in BOOLEAN : SaveRead(i, ok) => disk' = disk
          /\ \/ SaveRead(i, FALSE)
             \/ SaveRead(i, TRUE) /\ ~disk[tasks[i].file].wf
             \/ SaveWrite(i, FALSE)
             => /\ disk' = disk
                /\ tasks' = RemoveAt(tasks, i)
                /\ last'.notice = FailedSave /\ last'.failed]_vars

\* a save of a malformed document has failed, and the document is as it was
C10_Witness ==
    /\ last.by = "save" /\ last.notice = FailedSave /\ last.failed
    /\ last.file = "A.canvas"
    /\ disk["A.canvas"] = Malformed
    /\ tasks = <<>>

(* C11: load fails silently.  When the read of a restoration is rejected,   *)
(* or the document is malformed, has no viewports field or has no record    *)
(* under the current key, the load returns null: the restoration ends       *)
(* there with the notice "No saved viewport position found", nothing is     *)
(* raised (the plugin stays as it is), and no camera and no document        *)
(* changes.                                                                 *)
C11_LoadFailsSilently ==
    [][\A i \in 1..Len(tasks), ok \in BOOLEAN :
          /\ RestoreRead(i, ok)
          /\ \/ ~ok
             \/ ~disk[tasks[i].file].wf
             \/ ~disk[tasks[i].file].hasVp
             \/ ~disk[tasks[i].file].vp[getViewportKey].has
          => /\ tasks' = RemoveAt(tasks, i)
             /\ last'.notice = NoSaved
             /\ leaves' = leaves
             /\ disk' = disk
             /\ loaded' = loaded]_vars

\* a restoration of a malformed document has ended; the canvas keeps the
\* user's camera
C11_Witness ==
    /\ last.by = "restore" /\ last.notice = NoSaved /\ last.failed
    /\ disk["A.canvas"] = Malformed
    /\ Len(leaves) = 1 /\ leaves[1].cam = Pos(Num(10), Num(20), Num(2))
    /\ tasks = <<>>

(* C12: per-device isolation.  With useGlobalViewport off, a load on a      *)
(* device whose key has no record in the document, while another device's   *)
(* key has one, yields no saved record: the restoration ends with "No saved *)
(* viewport position found", no camera changes, and the document, with the  *)
(* other device's record, is unchanged.                                     *)
C12_DeviceIsolation ==
    [][\A i \in 1..Len(tasks) :
          /\ RestoreRead(i, TRUE)
          /\ ~useGlobalViewport
          /\ disk[tasks[i].file].wf /\ disk[tasks[i].file].hasVp
          /\ ~disk[tasks[i].file].vp[currentDevice].has
          /\ \E d \in Devices \ {currentDevice} : disk[tasks[i].file].vp[d].has
          => /\ tasks' = RemoveAt(tasks, i)
             /\ last'.notice = NoSaved /\ ~last'.failed
             /\ last'.key = currentDevice
             /\ leaves' = leaves
             /\ disk' = disk]_vars

\* device D2 has asked for its record in a document that holds one of D1 only
C12_Witness ==
    /\ currentDevice = "D2" /\ ~useGlobalViewport
    /\ last.by = "restore" /\ last.notice = NoSaved /\ ~last.failed /\ last.key = "D2"
    /\ HasKey(disk["A.canvas"], "D1") /\ ~HasKey(disk["A.canvas"], "D2")
    /\ RecordAt(disk["A.canvas"], "D1") = Pos(Num(10), Num(20), Num(2))

(* C13: global mode ignores the device identity.  With useGlobalViewport    *)
(* on, a save stores its record under the key "global" and touches no       *)
(* device's key, whatever the device; and a load returns the record stored  *)
(* under "global", whatever the device.                                     *)
C13_GlobalMode ==
    [][\A i \in 1..Len(tasks) :
          /\ SaveRead(i, TRUE) /\ useGlobalViewport /\ disk[tasks[i].file].wf
             => /\ tasks'[i].key = "global"
                /\ HasKey(tasks'[i].text, "global")
                /\ IsViewportRecord(tasks'[i].position) =>
                        RecordAt(tasks'[i].text, "global") = tasks'[i].position
                /\ \A d \in Devices :
                     /\ HasKey(tasks'[i].text, d) <=> HasKey(disk[tasks[i].file], d)
                     /\ HasKey(disk[tasks[i].file], d) =>
                          RecordAt(tasks'[i].text, d) = RecordAt(disk[tasks[i].file], d)
          /\ RestoreRead(i, TRUE) /\ useGlobalViewport /\ HasKey(disk[tasks[i].file], "global")
             => /\ tasks'[i].pc = "timer"
                /\ tasks'[i].position = RecordAt(disk[tasks[i].file], "global")]_vars

\* on device D2, in global mode, a restoration has loaded the record (0, 0, 1)
\* stored under "global"; the document has no record of D2
C13_Witness ==
    /\ currentDevice = "D2" /\ useGlobalViewport
    /\ Len(tasks) = 1 /\ tasks[1].kind = "restore" /\ tasks[1].pc = "timer"
    /\ tasks[1].position = Pos(Num(0), Num(0), Num(1))
    /\ RecordAt(disk["A.canvas"], "global") = Pos(Num(0), Num(0), Num(1))
    /\ ~HasKey(disk["A.canvas"], "D2")

(* C14: command gating.  The check of each of the three commands succeeds   *)
(* exactly when at least one canvas view is open; a command run with none   *)
(* open shows "Please open a canvas first" and does nothing else: it starts *)
(* no operation (no read, no write) and changes no camera.                  *)
C14_CommandGating ==
    [][/\ checkCallback <=> Len(leaves) >= 1
       /\ (CmdSave \/ CmdRestore \/ CmdDelete) /\ Len(leaves) = 0
            => /\ tasks' = tasks
               /\ disk' = disk
               /\ leaves' = leaves
               /\ last'.notice = PleaseOpen]_vars

\* a command was run with no canvas open
C14_Witness ==
    /\ last.by = "command" /\ last.notice = PleaseOpen
    /\ leaves = <<>> /\ tasks = <<>> /\ cmds = 1

(* C15: commands target the active canvas.  When the active view is a       *)
(* canvas, the operation a command starts (the save, the delete, the        *)
(* restoration) is on the active canvas's file and, for a save, on the      *)
(* active canvas's view; so no command reads or writes the document of a    *)
(* canvas that is open but not active.                                      *)
C15_CommandsTargetActive ==
    [][/\ CmdSave \/ CmdRestore \/ CmdDelete
       /\ active \in 1..Len(leaves)
       /\ Len(tasks') = Len(tasks) + 1
       => /\ tasks'[Len(tasks')].file = leaves[active].file
          /\ tasks'[Len(tasks')].kind = "save" => tasks'[Len(tasks')].view = active]_vars

(* C16: atomic read-then-replace of the open set.  The handler classifies   *)
(* on the remembered set as it is when the handler starts and installs the  *)
(* fresh set in the same step, before its first suspension; no other step   *)
(* (of a restoration that an earlier handler invocation is awaiting, of the *)
(* host or of the user) changes the set, so no handler sees a set that is   *)
(* half replaced or that changed between another handler's read and         *)
(* replace.                                                                 *)
C16_AtomicReadReplace ==
    [][/\ \A f \in Activations :
            Handles(f) =>
                /\ openCanvasFiles' = [n \in 1..Len(leaves) |-> leaves[n].file]
                /\ last'.started <=>
                      /\ ~f.null
                      /\ f.extension = "canvas"
                      /\ ~Includes(openCanvasFiles, f.path)
                /\ last'.started => tasks'[Len(tasks')].pc = "read"
       /\ openCanvasFiles' # openCanvasFiles /\ loaded' =>
            /\ \E f \in Activations : Handles(f)
            /\ \A i \in 1..Len(tasks), ok \in BOOLEAN :
                 ~(RestoreRead(i, ok) \/ RestoreTimer(i) \/ RestoreFrame(i, 0))]_vars

\* the handler has run for B.canvas while the restoration that its earlier
\* invocation for A.canvas started is still waiting for its timer
C16_Witness ==
    /\ Len(tasks) = 2
    /\ tasks[1].file = "A.canvas" /\ tasks[1].by = "file-open" /\ tasks[1].pc = "timer"
    /\ tasks[2].file = "B.canvas" /\ tasks[2].by = "file-open" /\ tasks[2].pc = "read"
    /\ last.by = "file-open" /\ last.file = "B.canvas" /\ last.started
    /\ openCanvasFiles = <<"A.canvas", "B.canvas">>

(* C18: no false negatives between rebuilds.  The activation of a canvas    *)
(* that follows at once the handling of another activation whose rebuild    *)
(* recorded it (two canvases opened in the same tick), and the activation   *)
(* of a canvas that follows at once the opening of its view (also of one    *)
(* closed and reopened since the last rebuild), is classified genuine and   *)
(* starts a restoration.                                                    *)
C18_NoFalseNegatives ==
    [][\A p \in CanvasPaths :
          /\ Handles(TFile(p, "canvas"))
          /\ \/ last.by = "file-open" /\ p \in last.added
             \/ last.by = "open" /\ last.file = p
          => StartsRestoration(p)]_vars

(* C19: restoration hits the right canvas.  The frame step of a restoration *)
(* started for file F changes the camera of no view that shows another      *)
(* canvas.                                                                  *)
C19_RightCanvas ==
    [][\A i \in 1..Len(tasks) :
          (\E k \in 0..Len(FrameOps) : RestoreFrame(i, k)) =>
            \A p \in CanvasPaths :
                Shown(leaves, p) /\ CamOf(leaves', p) # CamOf(leaves, p)
                    => p = tasks[i].file]_vars

(* C20: restoration reaches the saved camera.  The delta the restoration    *)
(* computes is R.tZoom minus the canvas's zoom at that moment, and after    *)
(* the frame step applied the record R (three numbers) to a live canvas     *)
(* with a numeric zoom, the canvas's zoom is R.tZoom and its pan is         *)
(* (R.tx, R.ty), whatever the user did to the camera in between.            *)
C20_ReachesSavedCamera ==
    [][\A i \in 1..Len(tasks) :
          /\ RestoreTimer(i) /\ Len(tasks') = Len(tasks) =>
                tasks'[i].zoomDelta = Minus(tasks[i].position.tZoom, leaves[1].cam.tZoom)
          /\ /\ RestoreFrame(i, 0)
             /\ tasks[i].view # 0
             /\ IsViewportRecord(tasks[i].position)
             /\ leaves[tasks[i].view].cam.tZoom.t = "num"
             => leaves'[tasks[i].view].cam = tasks[i].position]_vars

(* C17: unconditional snapshot replacement.  After every run of the         *)
(* handler, whatever the activated file, the remembered set is the list of  *)
(* the paths of the canvas views open at that run; a restoration the run    *)
(* starts has not taken its first step (the read) yet when the set is       *)
(* replaced; and while the plugin is unloaded the set is empty.             *)
C17_SnapshotReplacement ==
    [][/\ \A f \in Activations :
            Handles(f) =>
                /\ openCanvasFiles' = [n \in 1..Len(leaves) |-> leaves[n].file]
                /\ Len(tasks') > Len(tasks) =>
                      /\ tasks'[Len(tasks')].pc = "read"
                      /\ Includes(openCanvasFiles', f.path)
       /\ ~loaded' => openCanvasFiles' = <<>>]_vars

\* the plugin was unloaded with both canvases open, while a restoration its
\* handler had started was still pending: the set is empty
C17_Witness ==
    /\ ~loaded
    /\ openCanvasFiles = <<>>
    /\ Len(leaves) = 2
    /\ Len(tasks) >= 1 /\ tasks[1].by = "file-open"

(* C21: apply ordering.  A frame callback whose canvas methods all return   *)
(* calls the four of them once each, in the order zoomBy, panTo,            *)
(* markViewportChanged, requestFrame, and leaves the canvas at the camera   *)
(* that the zoom change followed by the pan gives; a callback that a        *)
(* throwing method ends early has called a prefix of that order, so a pan   *)
(* is never called before the zoom change of its restoration; and no other  *)
(* step of the plugin calls a canvas method.                                *)
C21_ApplyOrdering ==
    [][/\ \A i \in 1..Len(tasks), k \in 0..4 :
            RestoreFrame(i, k) =>
                /\ k = 0 =>
                     /\ last'.ops = <<"zoomBy", "panTo", "markViewportChanged", "requestFrame">>
                     /\ tasks[i].view # 0 =>
                           leaves'[tasks[i].view].cam =
                               panTo(zoomBy(leaves[tasks[i].view].cam, tasks[i].zoomDelta),
                                     tasks[i].position.tx, tasks[i].position.ty)
                /\ \A n \in 1..Len(last'.ops) :
                     last'.ops[n] = "panTo" => n > 1 /\ last'.ops[n - 1] = "zoomBy"
                /\ \A n, n2 \in 1..Len(last'.ops) : n # n2 => last'.ops[n] # last'.ops[n2]
       /\ last'.ops # <<>> =>
            \E i \in 1..Len(tasks), k \in 0..4 : RestoreFrame(i, k)]_vars

\* a restoration of A.canvas has just applied: the four calls were made and the
\* canvas is at the saved camera
C21_Witness ==
    /\ last.by = "restore" /\ last.notice = Restored
    /\ Len(last.ops) = 4
    /\ Len(leaves) = 1 /\ leaves[1].cam = Pos(Num(10), Num(20), Num(2))

(* C22: restoration terminates without retry.  A restoration whose read     *)
(* found a record waits for its timer once; when the timer fires it either  *)
(* goes on to the frame callback or, if there is no canvas view or the      *)
(* first one's canvas is missing or has an undefined zoom, ends at once     *)
(* with no camera changed and no Notice; the frame callback ends it; no     *)
(* step takes a restoration back to an earlier stage.  When the host        *)
(* settles every read, fires every timer and runs every frame callback,     *)
(* every restoration in flight ends.                                        *)
C22_TerminatesWithoutRetry ==
    /\ [][
           /\ \A i \in 1..Len(tasks), readOk \in BOOLEAN :
                RestoreRead(i, readOk) =>
                    IF Len(tasks') = Len(tasks)
                    THEN tasks'[i].pc = "timer"
                    ELSE Len(tasks') = Len(tasks) - 1 /\ leaves' = leaves
           /\ \A i \in 1..Len(tasks) :
                RestoreTimer(i) =>
                    IF \/ Len(leaves) = 0
                       \/ ~leaves[1].hasCanvas
                       \/ leaves[1].cam.tZoom = Undefined
                    THEN /\ Len(tasks') = Len(tasks) - 1
                         /\ leaves' = leaves
                         /\ last'.notice = NoNotice /\ ~last'.failed
                    ELSE Len(tasks') = Len(tasks) /\ tasks'[i].pc = "frame"
           /\ \A i \in 1..Len(tasks), k \in 0..4 :
                RestoreFrame(i, k) => (Len(tasks') = Len(tasks) - 1)
           /\ (Len(tasks') = Len(tasks)) =>
                \A n \in 1..Len(tasks) :
                    \/ tasks'[n].pc = tasks[n].pc
                    \/ tasks[n].pc = "read" /\ tasks'[n].pc = "timer"
                    \/ tasks[n].pc = "timer" /\ tasks'[n].pc = "frame"]_vars
    /\ (tasks # <<>>) ~> (tasks = <<>>)

\* a restoration of A.canvas has passed its one deferral and waits for its
\* frame callback, holding the first canvas view
C22_Witness ==
    /\ Len(tasks) = 1
    /\ tasks[1].kind = "restore" /\ tasks[1].pc = "frame" /\ tasks[1].view = 1
    /\ tasks[1].position = Pos(Num(10), Num(20), Num(2))

(* C23: apply failure is contained.  When one of the four canvas methods    *)
(* of the apply sequence throws, the plugin catches the exception: the      *)
(* step shows the Notice 'Failed to restore viewport' and no exception      *)
(* leaves it uncaught.                                                      *)
C23_ApplyFailureContained ==
    [][\A i \in 1..Len(tasks), k \in 1..4 :
          RestoreFrame(i, k) =>
              /\ last'.notice = FailedRestore
              /\ ~last'.uncaught]_vars

(* C24: delete write failure is surfaced as a failure.  When a delete has   *)
(* found the record and vault.modify rejects its write, the step shows a    *)
(* Notice that is not 'No saved viewport position found', leaves the        *)
(* document as it is, and ends the delete (no second write).                *)
C24_DeleteWriteFailure ==
    [][\A i \in 1..Len(tasks) :
          DeleteWrite(i, FALSE) =>
              /\ last'.notice # NoNotice
              /\ last'.notice # NoSaved
              /\ disk' = disk
              /\ Len(tasks') = Len(tasks) - 1]_vars

(* C25: restoration is read-only on persisted state.  No step of a          *)
(* restoration (its start by the handler or the restore command, its read,  *)
(* its timer, its frame callback, whether the calls return or one throws)   *)
(* changes the text of any canvas document; with restorations as the        *)
(* plugin's only activity, a document changes only when the host edits it.  *)
C25_RestorationReadOnly ==
    [][/\ \A i \in 1..Len(tasks) :
            \/ \E readOk \in BOOLEAN : RestoreRead(i, readOk)
            \/ RestoreTimer(i)
            \/ \E k \in 0..4 : RestoreFrame(i, k)
            => disk' = disk
       /\ CmdRestore \/ (\E f \in Activations : Handles(f)) => disk' = disk
       /\ disk' # disk => HostEdit("A.canvas")]_vars

\* a restoration of A.canvas has just ended with an exception of panTo, after
\* its zoom change: the document is the one the host wrote
C25_Witness ==
    /\ last.by = "restore" /\ last.file = "A.canvas"
    /\ last.uncaught /\ last.ops = <<"zoomBy", "panTo">>
    /\ disk["A.canvas"] = SavedDoc

====
